---- MODULE Spec2Model ----
(***************************************************************************)
(* Model of sitkibex/xml_info.py: the two conversions between the list of  *)
(* channel dictionaries and the imaris_channels_information XML string.    *)
(*                                                                         *)
(* Representation of the Python values:                                    *)
(*   - a str is a sequence of one-character strings;                       *)
(*   - an optional value is <<>> (None, unbound, not found) or <<v>>;      *)
(*   - a float written or read as a decimal is [m |-> mantissa,            *)
(*     e |-> number of decimals], normalised, i.e. the number m / 10^e;    *)
(*   - a color component is the fraction [n |-> numerator,                 *)
(*     d |-> denominator], so that c*255 + 0.5 and x/255 are computed      *)
(*     exactly;                                                            *)
(*   - a dict is a function whose domain is its set of keys;               *)
(*   - an XML element below a channel is [tag, text, nsub]: its tag, its   *)
(*     optional text and its number of sub-elements.                       *)
(***************************************************************************)
EXTENDS Integers, Sequences, FiniteSets

VARIABLES entry, pc, raised, channels_information_list, xml_root, color_info,
          xmlstr, channels_xml_information, channels_information

vars == <<entry, pc, raised, channels_information_list, xml_root, color_info,
          xmlstr, channels_xml_information, channels_information>>

\* Longest list of records / channel elements given to a conversion.
MaxChannels == 2

\* The scale between a normalised color component and its 0..255 text.
ColorScale == 255

None == <<>>

Some(v) == <<v>>

IsNone(o) == o = <<>>

Get(o) == o[1]

(***************************************************************************)
(* Python str and number primitives                                        *)
(***************************************************************************)
Digits == <<"0", "1", "2", "3", "4", "5", "6", "7", "8", "9">>

IsDigit(c) == \E k \in 1..10 : Digits[k] = c

DigitVal(c) == (CHOOSE k \in 1..10 : Digits[k] = c) - 1

\* str.isspace for one character: what str.split() splits on and float() strips.
IsSpace(c) == c \in {" ", "\t", "\n"}

RECURSIVE Pow10(_)
Pow10(k) == IF k = 0 THEN 1 ELSE 10 * Pow10(k - 1)

\* str(n) for an int n >= 0.
RECURSIVE IntStr(_)
IntStr(n) == IF n < 10 THEN <<Digits[n + 1]>>
             ELSE IntStr(n \div 10) \o <<Digits[(n % 10) + 1]>>

\* The k decimals of the fractional part f (0 <= f < 10^k), zero padded.
RECURSIVE FracDigits(_, _)
FracDigits(f, k) == IF k = 0 THEN <<>>
                    ELSE FracDigits(f \div 10, k - 1) \o <<Digits[(f % 10) + 1]>>

\* The decimal m / 10^e with trailing zero decimals removed.
RECURSIVE Normalise(_, _)
Normalise(m, e) == IF e > 0 /\ m % 10 = 0 THEN Normalise(m \div 10, e - 1)
                   ELSE [m |-> m, e |-> e]

\* str(x) for a float x >= 0 in the range Python prints without an exponent:
\* the shortest decimal, always with a decimal point.
FloatStr(x) == IF x.e = 0 THEN IntStr(x.m) \o <<".", "0">>
               ELSE IntStr(x.m \div Pow10(x.e)) \o <<".">>
                    \o FracDigits(x.m % Pow10(x.e), x.e)

\* str.strip(): s without its leading and trailing whitespace.
RECURSIVE LStrip(_)
LStrip(s) == IF s # <<>> /\ IsSpace(Head(s)) THEN LStrip(Tail(s)) ELSE s

RECURSIVE RStrip(_)
RStrip(s) == IF s # <<>> /\ IsSpace(s[Len(s)]) THEN RStrip(SubSeq(s, 1, Len(s) - 1))
             ELSE s

Strip(s) == RStrip(LStrip(s))

\* The value of a sequence of digit characters read as a decimal integer.
RECURSIVE DigitsVal(_)
DigitsVal(s) == IF s = <<>> THEN 0
                ELSE 10 * DigitsVal(SubSeq(s, 1, Len(s) - 1)) + DigitVal(s[Len(s)])

DotPositions(s) == {k \in 1..Len(s) : s[k] = "."}

\* float(s): whitespace is stripped, then digits with at most one decimal point
\* and at least one digit are a number; any other text is a ValueError (None).
PyFloat(s) ==
    LET t    == Strip(s)
        dots == DotPositions(t)
        ds   == SelectSeq(t, IsDigit)
    IN  IF /\ ds # <<>>
           /\ Cardinality(dots) <= 1
           /\ \A k \in 1..Len(t) : IsDigit(t[k]) \/ t[k] = "."
        THEN Some(Normalise(DigitsVal(ds),
                            IF dots = {} THEN 0
                            ELSE Len(t) - (CHOOSE k \in dots : TRUE)))
        ELSE None

\* s.replace(',', ' ')
ReplaceCommas(s) == [k \in 1..Len(s) |-> IF s[k] = "," THEN " " ELSE s[k]]

\* s.split(): the maximal runs of non-whitespace characters, in order.
RECURSIVE SplitFrom(_, _)
SplitFrom(s, cur) ==
    IF s = <<>> THEN (IF cur = <<>> THEN <<>> ELSE <<cur>>)
    ELSE IF IsSpace(Head(s))
         THEN (IF cur = <<>> THEN <<>> ELSE <<cur>>) \o SplitFrom(Tail(s), <<>>)
         ELSE SplitFrom(Tail(s), Append(cur, Head(s)))

Split(s) == SplitFrom(s, <<>>)

\* Variant without the replace: only whitespace separates.
TokensCommasKept(text) == Split(text)

\* text.replace(',', ' ').split()
Tokens(text) == Split(ReplaceCommas(text))

\* sep.join(parts)
RECURSIVE Join(_, _)
Join(sep, parts) == IF parts = <<>> THEN <<>>
                    ELSE IF Len(parts) = 1 THEN parts[1]
                    ELSE parts[1] \o sep \o Join(sep, Tail(parts))

\* int(c*255 + 0.5) for the fraction c >= 0: int() truncates. The components
\* used are binary fractions, for which the float arithmetic is exact.
ColorToInt(c) == (2 * ColorScale * c.n + c.d) \div (2 * c.d)

\* float(tok)/255 for the parsed decimal x.
ColorFromNum(x) == [n |-> x.m, d |-> ColorScale * Pow10(x.e)]

(***************************************************************************)
(* dict and xml.etree.ElementTree primitives                               *)
(***************************************************************************)
NoExc == "none"

EmptyDict == [k \in {} |-> None]

HasKey(d, k) == k \in DOMAIN d

\* d[k] = v
Put(d, k, v) == [x \in DOMAIN d \cup {k} |-> IF x = k THEN v ELSE d[x]]

\* et.SubElement(parent, tag): a new element without text or sub-elements.
SubElement(tag) == [tag |-> tag, text |-> None, nsub |-> 0]

\* element.find(tag): the first child with that tag, or None.
Find(children, tag) ==
    LET hits == {k \in 1..Len(children) : children[k].tag = tag}
    IN  IF hits = {} THEN None
        ELSE Some(children[CHOOSE k \in hits : \A h \in hits : k <= h])

\* bool(element): Element.__bool__ is len(element) != 0 (the number of
\* sub-elements, whatever the text), and find()'s None is false.
ElementTruth(found) == ~IsNone(found) /\ Get(found).nsub > 0

CommentNode == [kind |-> "comment", children |-> <<>>]

ChannelNode(children) == [kind |-> "element", children |-> children]

\* An element without characters is written without text and read back as None.
WrittenText(t) == IF t = Some(<<>>) THEN None ELSE t

\* et.tostring(xml_root, encoding='unicode'): the document as written. Escaping
\* is undone by the parser, so the characters of a text are kept as they are.
tostring(root) ==
    [k \in 1..Len(root) |->
        [kind |-> root[k].kind,
         children |-> [c \in 1..Len(root[k].children) |->
                          [root[k].children[c] EXCEPT !.text = WrittenText(@)]]]]

IsElement(node) == node.kind = "element"

\* list(et.fromstring(s)): the child elements of the root in document order; the
\* default parser drops the comments.
fromstring(doc) ==
    LET elems == SelectSeq(doc, IsElement)
    IN  [k \in 1..Len(elems) |-> elems[k].children]

(***************************************************************************)
(* channels_information_xmlstr2list: one channel element                   *)
(***************************************************************************)
Raise(exc, info) == [exc |-> exc, info |-> info]

Ok(info) == [exc |-> NoExc, info |-> info]

\* [float(c) for c in toks]: None when some float(c) is a ValueError.
FloatList(toks) ==
    IF \E k \in 1..Len(toks) : IsNone(PyFloat(toks[k])) THEN None
    ELSE Some([k \in 1..Len(toks) |-> Get(PyFloat(toks[k]))])

\* [float(c)/255 for c in toks]
ColorList(toks) ==
    IF IsNone(FloatList(toks)) THEN None
    ELSE Some([k \in 1..Len(toks) |-> ColorFromNum(Get(FloatList(toks))[k])])

\* channel_info[key] = channel_xml_info.find(tag).text
ReadText(ch, info, key) ==
    IF IsNone(Find(ch, key)) THEN Raise("AttributeError", info)
    ELSE Ok(Put(info, key, Get(Find(ch, key)).text))

\* channel_info[key] = [float(c)/255 for c in find(key).text.replace(',', ' ').split()]
ReadColorList(ch, info, key) ==
    LET text == Get(Find(ch, key)).text
    IN  IF IsNone(text) THEN Raise("AttributeError", info)
        ELSE IF IsNone(ColorList(Tokens(Get(text)))) THEN Raise("ValueError", info)
        ELSE Ok(Put(info, key, Get(ColorList(Tokens(Get(text))))))

ReadColor(ch, info) ==
    IF ~IsNone(Find(ch, "color")) THEN ReadColorList(ch, info, "color")
    ELSE IF ~IsNone(Find(ch, "color_table")) THEN ReadColorList(ch, info, "color_table")
    ELSE Ok(info)

ReadRange(ch, info) ==
    IF IsNone(Find(ch, "range")) THEN Raise("AttributeError", info)
    ELSE LET text == Get(Find(ch, "range")).text
         IN  IF IsNone(text) THEN Raise("AttributeError", info)
             ELSE IF IsNone(FloatList(Tokens(Get(text)))) THEN Raise("ValueError", info)
             ELSE Ok(Put(info, "range", Get(FloatList(Tokens(Get(text))))))

\* channel_info[key] = float(channel_xml_info.find(key).text)
ReadFloat(ch, info, key) ==
    IF IsNone(Find(ch, key)) THEN Raise("AttributeError", info)
    ELSE LET text == Get(Find(ch, key)).text
         IN  IF IsNone(text) THEN Raise("TypeError", info)
             ELSE IF IsNone(PyFloat(Get(text))) THEN Raise("ValueError", info)
             ELSE Ok(Put(info, key, Get(PyFloat(Get(text)))))

ReadGamma(ch, info) ==
    IF ElementTruth(Find(ch, "gamma")) THEN ReadFloat(ch, info, "gamma") ELSE Ok(info)

\* The body of the loop over the channel elements, up to the append.
XmlChannelInfo(ch) ==
    LET r1 == ReadText(ch, EmptyDict, "name")
        r2 == IF r1.exc # NoExc THEN r1 ELSE ReadText(ch, r1.info, "description")
        r3 == IF r2.exc # NoExc THEN r2 ELSE ReadColor(ch, r2.info)
        r4 == IF r3.exc # NoExc THEN r3 ELSE ReadRange(ch, r3.info)
        r5 == IF r4.exc # NoExc THEN r4 ELSE ReadGamma(ch, r4.info)
    IN  IF r5.exc # NoExc THEN r5 ELSE ReadFloat(ch, r5.info, "alpha")

\* Variant: channels_information.insert(0, channel_info)
AppendInfoInFront(list, info) == <<info>> \o list

\* channels_information.append(channel_info)
AppendInfo(list, info) == Append(list, info)

(***************************************************************************)
(* channels_information_list2xmlstr: one record                            *)
(***************************************************************************)
Raised(exc, child, ci) == [exc |-> exc, child |-> child, color_info |-> ci]

Written(child, ci) == [exc |-> NoExc, child |-> child, color_info |-> ci]

\* current_field.text = text, current_field being the element created last.
SetLastText(child, text) == [child EXCEPT ![Len(child)].text = Some(text)]

\* current_field = et.SubElement(child, key); current_field.text = channel_information[key]
WriteText(child, info, key, ci) ==
    IF ~HasKey(info, key) THEN Raised("KeyError", Append(child, SubElement(key)), ci)
    ELSE Written([Append(child, SubElement(key)) EXCEPT ![Len(child) + 1].text = info[key]],
                 ci)

\* ', '.join([str(int(c*255 + 0.5)) for c in color_info])
ColorText(colors) ==
    Join(<<",", " ">>, [k \in 1..Len(colors) |-> IntStr(ColorToInt(colors[k]))])

\* The if/elif choosing the color element, then the assignment of the joined
\* text that follows it unconditionally: with neither key, current_field is
\* still the description element and color_info is what an earlier record left.
WriteColor(child, info, ci) ==
    LET chosen == IF HasKey(info, "color")
                  THEN Written(Append(child, SubElement("color")), Some(info["color"]))
                  ELSE IF HasKey(info, "color_table")
                  THEN Written(Append(child, SubElement("color_table")),
                               Some(info["color_table"]))
                  ELSE Written(child, ci)
    IN  IF IsNone(chosen.color_info)
        THEN Raised("UnboundLocalError", chosen.child, chosen.color_info)
        ELSE Written(SetLastText(chosen.child, ColorText(Get(chosen.color_info))),
                     chosen.color_info)

\* '{0}, {1}'.format(channel_information['range'][0], channel_information['range'][1])
WriteRange(child, info, ci) ==
    IF ~HasKey(info, "range") THEN Raised("KeyError", Append(child, SubElement("range")), ci)
    ELSE IF Len(info["range"]) < 2
    THEN Raised("IndexError", Append(child, SubElement("range")), ci)
    ELSE Written(SetLastText(Append(child, SubElement("range")),
                             FloatStr(info["range"][1]) \o <<",", " ">>
                                 \o FloatStr(info["range"][2])),
                 ci)

\* current_field = et.SubElement(child, key); current_field.text = str(channel_information[key])
WriteFloat(child, info, key, ci) ==
    IF ~HasKey(info, key) THEN Raised("KeyError", Append(child, SubElement(key)), ci)
    ELSE Written(SetLastText(Append(child, SubElement(key)), FloatStr(info[key])), ci)

\* Variant: the gamma element is created before the test of the key.
WriteGammaAlwaysElement(child, info, ci) ==
    IF HasKey(info, "gamma") THEN WriteFloat(child, info, "gamma", ci)
    ELSE Written(Append(child, SubElement("gamma")), ci)

\* if 'gamma' in channel_information: ...
WriteGamma(child, info, ci) ==
    IF HasKey(info, "gamma") THEN WriteFloat(child, info, "gamma", ci)
    ELSE Written(child, ci)

\* The body of the loop over the records; ci is color_info on entry.
ListChannelXml(info, ci) ==
    LET w1 == WriteText(<<>>, info, "name", ci)
        w2 == IF w1.exc # NoExc THEN w1 ELSE WriteText(w1.child, info, "description", ci)
        w3 == IF w2.exc # NoExc THEN w2 ELSE WriteColor(w2.child, info, ci)
        w4 == IF w3.exc # NoExc THEN w3 ELSE WriteRange(w3.child, info, w3.color_info)
        w5 == IF w4.exc # NoExc THEN w4
              ELSE WriteFloat(w4.child, info, "alpha", w4.color_info)
    IN  IF w5.exc # NoExc THEN w5 ELSE WriteGamma(w5.child, info, w5.color_info)

(***************************************************************************)
(* The arguments of the calls                                              *)
(***************************************************************************)
Dec(m, e) == [m |-> m, e |-> e]

Frac(n, d) == [n |-> n, d |-> d]

Remove(d, k) == [x \in DOMAIN d \ {k} |-> d[x]]

Dapi == [name |-> Some(<<"D", "A", "P", "I">>), description |-> Some(<<"N", "u", "c">>),
         color |-> <<Frac(0, 1), Frac(0, 1), Frac(1, 1)>>,
         range |-> <<Dec(0, 0), Dec(4095, 0)>>, alpha |-> Dec(1, 0)]

Gfp == [name |-> Some(<<"G", "F", "P">>), description |-> Some(<<"c", "y", "t">>),
        color_table |-> <<Frac(1, 2), Frac(1, 4), Frac(1, 1)>>,
        range |-> <<Dec(5, 1), Dec(2, 0)>>, alpha |-> Dec(25, 2)]

\* Dictionaries as the callers may pass them: complete ones with color or with
\* color_table, with and without gamma, and ones with both color keys, with
\* none, with a missing key, an empty name or a short range.
InputRecords ==
    { Dapi, Gfp,
      Put(Dapi, "gamma", Dec(15, 1)),
      Put(Gfp, "gamma", Dec(5, 1)),
      Put(Put(Dapi, "color_table", Gfp["color_table"]), "name", Some(<<"B">>)),
      Put(Remove(Gfp, "color_table"), "name", Some(<<"Q">>)),
      Put(Put(Remove(Dapi, "color"), "gamma", Dec(2, 0)), "name", Some(<<"R">>)),
      Remove(Dapi, "alpha"),
      Remove(Gfp, "name"),
      Put(Dapi, "name", Some(<<>>)),
      Put(Gfp, "range", <<Dec(0, 0)>>) }

SeqsUpTo(S, n) == UNION {[1..k -> S] : k \in 0..n}

InputRecordLists == SeqsUpTo(InputRecords, MaxChannels)

Field(tag, text) == [tag |-> tag, text |-> Some(text), nsub |-> 0]

\* The separators between two numbers of a list: commas, commas followed by
\* whitespace, whitespace only, and mixes.
Separators == { <<",">>, <<",", " ">>, <<" ">>, <<" ", " ">>, <<" ", ",", "\t">> }

\* toks[1] seps[1] toks[2] seps[2] ... : the tokens with a separator of their
\* own between each two.
RECURSIVE SepJoin(_, _)
SepJoin(toks, seps) == IF Len(toks) = 1 THEN toks[1]
                       ELSE toks[1] \o seps[1] \o SepJoin(Tail(toks), Tail(seps))

RangeTokens == << <<"0">>, <<"4", "0", "9", "5", ".", "0">> >>

ColorTokens == << <<"0">>, <<"1", "2", "8">>, <<"2", "5", "5">> >>

Channel(nameText, colorTag, colorText, rangeText, alphaText) ==
    << Field("name", nameText), Field("description", <<"d">>),
       Field(colorTag, colorText), Field("range", rangeText),
       Field("alpha", alphaText) >>

Plain == Channel(<<"a">>, "color", <<"0", ",", " ", "0", ",", " ", "2", "5", "5">>,
                 <<"0", ",", " ", "1", ".", "5">>, <<"1", ".", "0">>)

WithoutTag(ch, tag) == SelectSeq(ch, LAMBDA el : el.tag # tag)

WithText(ch, tag, text) ==
    [k \in 1..Len(ch) |-> IF ch[k].tag = tag THEN [ch[k] EXCEPT !.text = text] ELSE ch[k]]

Gamma(text, nsub) == [tag |-> "gamma", text |-> text, nsub |-> nsub]

\* Channel elements as a document may hold them.
SeparatorChannels ==
    { Channel(<<"r">>, "color", Plain[3].text[1], SepJoin(RangeTokens, <<s>>), <<"1">>)
        : s \in Separators }
    \cup
    { Channel(<<"c">>, "color", SepJoin(ColorTokens, <<s, <<",", " ">> >>),
              Plain[4].text[1], <<".", "5">>) : s \in {<<",">>, <<" ">>} }
    \cup
    { Channel(<<"t">>, "color_table", SepJoin(ColorTokens, << <<" ", ",">>, <<"\t">> >>),
              Plain[4].text[1], <<" ", "1", ".">>) }

GammaChannels ==
    { Append(Plain, Gamma(text, nsub))
        : text \in {Some(<<"1", ".", "5">>), Some(<<"x">>)}, nsub \in {0, 1} }
    \cup { Append(Plain, Gamma(None, 0)) }

DefectiveChannels ==
    { WithoutTag(Plain, "name"), WithoutTag(Plain, "description"),
      WithoutTag(Plain, "range"), WithoutTag(Plain, "alpha"),
      WithoutTag(Plain, "color"),
      WithText(Plain, "color", Some(<<"x">>)),
      WithText(Plain, "alpha", None),
      WithText(Plain, "alpha", Some(<<"1", ".", ".">>)),
      Append(Plain, Field("color_table", <<"x">>)),
      Append(WithoutTag(Plain, "color"), Field("color_table", <<"x">>)) }

InputChannels == {Plain} \cup SeparatorChannels \cup GammaChannels \cup DefectiveChannels

InputDocuments ==
    { [k \in 1..Len(chs) |-> ChannelNode(chs[k])] : chs \in SeqsUpTo(InputChannels, MaxChannels) }

(***************************************************************************)
(* The calls, one step of a loop at a time                                 *)
(***************************************************************************)
\* A call of channels_information_list2xmlstr(records), after the root and its
\* comment were made, or a call of channels_information_xmlstr2list(document).
InitList2XmlStr ==
    /\ entry = "list2xmlstr"
    /\ pc = "list2xmlstr"
    /\ channels_information_list \in InputRecordLists
    /\ xml_root = <<CommentNode>>
    /\ xmlstr = None

InitXmlStr2List ==
    /\ entry = "xmlstr2list"
    /\ pc = "xmlstr2list"
    /\ channels_information_list = <<>>
    /\ xml_root = <<>>
    /\ xmlstr \in {Some(doc) : doc \in InputDocuments}

Init ==
    /\ InitList2XmlStr \/ InitXmlStr2List
    /\ raised = NoExc
    /\ color_info = None
    /\ channels_xml_information = <<>>
    /\ channels_information = <<>>

\* The records already turned into channel elements (the root's first child is
\* the comment).
RecordsWritten == Len(xml_root) - 1

\* for channel_information in channels_information_list: one record.
List2XmlChannel ==
    /\ pc = "list2xmlstr" /\ raised = NoExc
    /\ RecordsWritten < Len(channels_information_list)
    /\ LET w == ListChannelXml(channels_information_list[RecordsWritten + 1], color_info)
       IN  /\ xml_root' = Append(xml_root, ChannelNode(w.child))
           /\ color_info' = w.color_info
           /\ raised' = w.exc
    /\ UNCHANGED <<entry, pc, channels_information_list, xmlstr,
                   channels_xml_information, channels_information>>

\* return et.tostring(xml_root, encoding='unicode'); the caller then passes
\* the string to channels_information_xmlstr2list.
List2XmlReturn ==
    /\ pc = "list2xmlstr" /\ raised = NoExc
    /\ RecordsWritten = Len(channels_information_list)
    /\ xmlstr' = Some(tostring(xml_root))
    /\ pc' = "xmlstr2list"
    /\ UNCHANGED <<entry, raised, channels_information_list, xml_root, color_info,
                   channels_xml_information, channels_information>>

\* channels_information = []; channels_xml_information = list(et.fromstring(...))
Xml2ListParse ==
    /\ pc = "xmlstr2list" /\ raised = NoExc
    /\ channels_xml_information' = fromstring(Get(xmlstr))
    /\ channels_information' = <<>>
    /\ pc' = "channels"
    /\ UNCHANGED <<entry, raised, channels_information_list, xml_root, color_info,
                   xmlstr>>

\* for channel_xml_info in channels_xml_information: one channel element.
Xml2ListChannel ==
    /\ pc = "channels" /\ raised = NoExc
    /\ Len(channels_information) < Len(channels_xml_information)
    /\ LET r == XmlChannelInfo(channels_xml_information[Len(channels_information) + 1])
       IN  /\ raised' = r.exc
           /\ channels_information' = IF r.exc = NoExc
                                      THEN AppendInfo(channels_information, r.info)
                                      ELSE channels_information
    /\ UNCHANGED <<entry, pc, channels_information_list, xml_root, color_info,
                   xmlstr, channels_xml_information>>

\* return channels_information
Xml2ListReturn ==
    /\ pc = "channels" /\ raised = NoExc
    /\ Len(channels_information) = Len(channels_xml_information)
    /\ pc' = "done"
    /\ UNCHANGED <<entry, raised, channels_information_list, xml_root, color_info,
                   xmlstr, channels_xml_information, channels_information>>

Next ==
    \/ List2XmlChannel
    \/ List2XmlReturn
    \/ Xml2ListParse
    \/ Xml2ListChannel
    \/ Xml2ListReturn

Spec == Init /\ [][Next]_vars

(***************************************************************************)
(* Vocabulary of the properties                                            *)
(***************************************************************************)
\* The channel elements of the XML string, in document order.
OutChannels == IF IsNone(xmlstr) THEN <<>>
               ELSE LET elems == SelectSeq(Get(xmlstr), IsElement)
                    IN  [k \in 1..Len(elems) |-> elems[k].children]

Has(ch, tag) == \E k \in 1..Len(ch) : ch[k].tag = tag

TextOf(ch, tag) == ch[CHOOSE k \in 1..Len(ch) : ch[k].tag = tag].text

Tags(ch) == [k \in 1..Len(ch) |-> ch[k].tag]

Serialized == entry = "list2xmlstr" /\ ~IsNone(xmlstr)

Reading == pc \in {"channels", "done"}

RequiredKeys == {"name", "description", "range", "alpha"}

ColorKeys == {"color", "color_table"}

NonEmpty(text) == ~IsNone(text) /\ Get(text) # <<>>

\* A record with every required key and a range of two numbers.
HasRequired(r) == RequiredKeys \subseteq DOMAIN r /\ Len(r["range"]) = 2

\* A well-formed record: the required keys, name and description being strings
\* with characters, exactly one color key, maybe gamma.
WellFormed(r) ==
    /\ HasRequired(r)
    /\ NonEmpty(r["name"]) /\ NonEmpty(r["description"])
    /\ Cardinality(ColorKeys \cap DOMAIN r) = 1
    /\ DOMAIN r \subseteq RequiredKeys \cup ColorKeys \cup {"gamma"}

\* |a - b| <= 1/255 for two fractions.
Within255th(a, b) ==
    LET diff == a.n * b.d - b.n * a.d
    IN  ColorScale * (IF diff < 0 THEN -diff ELSE diff) <= a.d * b.d

SameColors(a, b) ==
    Len(a) = Len(b) /\ \A k \in 1..Len(a) : Within255th(a[k], b[k])

\* The record read back equals the record written, up to the color rounding.
Reproduces(back, r) ==
    /\ DOMAIN back = DOMAIN r
    /\ \A k \in DOMAIN r \cap DOMAIN back :
          IF k \in ColorKeys THEN SameColors(back[k], r[k]) ELSE back[k] = r[k]

\* The text is a list of numbers / one number that float() accepts.
ListParses(text) == ~IsNone(text) /\ ~IsNone(FloatList(Tokens(Get(text))))

FloatParses(text) == ~IsNone(text) /\ ~IsNone(PyFloat(Get(text)))

\* Every numeric text of the channel that is to be read parses.
NumericTextsParse(ch) ==
    /\ Has(ch, "color") => ListParses(TextOf(ch, "color"))
    /\ (~Has(ch, "color") /\ Has(ch, "color_table")) => ListParses(TextOf(ch, "color_table"))
    /\ Has(ch, "range") => ListParses(TextOf(ch, "range"))
    /\ Has(ch, "alpha") => FloatParses(TextOf(ch, "alpha"))
    /\ (Has(ch, "gamma") /\ NonEmpty(TextOf(ch, "gamma"))) => FloatParses(TextOf(ch, "gamma"))

\* A bad channel: a required child is missing or a numeric text does not parse.
BadChannel(ch) ==
    \/ \E tag \in RequiredKeys : ~Has(ch, tag)
    \/ ~NumericTextsParse(ch)

(***************************************************************************)
(* C1. Round trip: for a list of well-formed records, list2xmlstr followed *)
(* by xmlstr2list raises nothing and gives back a list of the same length  *)
(* whose records have the same keys, colors within 1/255 and every other   *)
(* field equal.                                                            *)
(***************************************************************************)
RoundTrip ==
    (/\ entry = "list2xmlstr"
     /\ \A i \in 1..Len(channels_information_list) :
           WellFormed(channels_information_list[i]))
    => /\ raised = NoExc
       /\ Reading =>
             \A i \in 1..Len(channels_information) :
                Reproduces(channels_information[i], channels_information_list[i])
       /\ pc = "done" => Len(channels_information) = Len(channels_information_list)

(***************************************************************************)
(* C2. Mutual exclusivity: when some record, at any position, has both     *)
(* color keys or none (the required keys being there), list2xmlstr raises  *)
(* InvalidRecordError and returns no string.                               *)
(***************************************************************************)
BothOrNeither(r) == Cardinality(ColorKeys \cap DOMAIN r) # 1

MutualExclusivity ==
    (/\ entry = "list2xmlstr"
     /\ \A i \in 1..Len(channels_information_list) :
           HasRequired(channels_information_list[i])
     /\ \E i \in 1..Len(channels_information_list) :
           BothOrNeither(channels_information_list[i]))
    => /\ IsNone(xmlstr)
       /\ raised \in {NoExc, "InvalidRecordError"}

(***************************************************************************)
(* C3. Missing required field: when a channel element lacks name,          *)
(* description or alpha (the document being well-formed otherwise),        *)
(* xmlstr2list returns no list and what it raises is MissingFieldError.    *)
(***************************************************************************)
MissingField ==
    (/\ entry = "xmlstr2list"
     /\ \A i \in 1..Len(OutChannels) :
           Has(OutChannels[i], "range") /\ NumericTextsParse(OutChannels[i])
     /\ \E i \in 1..Len(OutChannels) :
           \E tag \in {"name", "description", "alpha"} : ~Has(OutChannels[i], tag))
    => /\ pc # "done"
       /\ raised \in {NoExc, "MissingFieldError"}

(***************************************************************************)
(* C4. Order preservation: the i-th record read is the one built from the  *)
(* i-th channel element of the document, the i-th channel element written  *)
(* carries the name, range and alpha of the i-th record, and a call that   *)
(* returns has produced as many records / channel elements as it was given *)
(* channel elements / records.                                             *)
(***************************************************************************)
OrderPreserved ==
    /\ Reading =>
          /\ Len(channels_information) <= Len(OutChannels)
          /\ \A i \in 1..Len(channels_information) :
                channels_information[i] = XmlChannelInfo(OutChannels[i]).info
    /\ pc = "done" => Len(channels_information) = Len(OutChannels)
    /\ Serialized =>
          /\ Len(OutChannels) = Len(channels_information_list)
          /\ \A i \in 1..Len(OutChannels) :
                /\ TextOf(OutChannels[i], "name")
                      = WrittenText(channels_information_list[i]["name"])
                /\ TextOf(OutChannels[i], "alpha")
                      = Some(FloatStr(channels_information_list[i]["alpha"]))
                /\ TextOf(OutChannels[i], "range")
                      = Some(FloatStr(channels_information_list[i]["range"][1])
                             \o <<",", " ">>
                             \o FloatStr(channels_information_list[i]["range"][2]))

\* Two different records went through both conversions.
OrderPreservedWitness ==
    /\ pc = "done" /\ entry = "list2xmlstr"
    /\ Len(channels_information) = 2
    /\ channels_information[1] # channels_information[2]
    /\ channels_information_list[1]["name"] # channels_information_list[2]["name"]

(***************************************************************************)
(* C5. Gamma is read when present: the record of a channel element that    *)
(* has a gamma child with a non-empty text (a number) has the key gamma,   *)
(* with that number.                                                       *)
(***************************************************************************)
GammaReadWhenPresent ==
    Reading =>
       \A i \in 1..Len(channels_information) :
          (/\ Has(OutChannels[i], "gamma")
           /\ NonEmpty(TextOf(OutChannels[i], "gamma"))
           /\ FloatParses(TextOf(OutChannels[i], "gamma")))
          => /\ HasKey(channels_information[i], "gamma")
             /\ channels_information[i]["gamma"]
                   = Get(PyFloat(Get(TextOf(OutChannels[i], "gamma"))))

(***************************************************************************)
(* C6. Optional gamma: the channel element written for a record without    *)
(* the key gamma has no gamma child, in the tree and in the string, and    *)
(* the record read back from it has no key gamma.                          *)
(***************************************************************************)
OptionalGamma ==
    entry = "list2xmlstr" =>
       \A i \in 1..Len(channels_information_list) :
          ~HasKey(channels_information_list[i], "gamma")
          => /\ i <= RecordsWritten => ~Has(xml_root[i + 1].children, "gamma")
             /\ Serialized => ~Has(OutChannels[i], "gamma")
             /\ (Reading /\ i <= Len(channels_information))
                   => ~HasKey(channels_information[i], "gamma")

\* A record without gamma, next to one with gamma, was written and read back.
OptionalGammaWitness ==
    /\ pc = "done" /\ entry = "list2xmlstr"
    /\ Len(channels_information) = 2
    /\ ~HasKey(channels_information_list[1], "gamma")
    /\ HasKey(channels_information_list[2], "gamma")
    /\ Has(OutChannels[2], "gamma")

(***************************************************************************)
(* C7. Separator tolerance: a range, color or color_table text that        *)
(* separates given number tokens by commas, commas and whitespace,         *)
(* whitespace only or a mix is read as the numbers of those tokens,        *)
(* whatever the separators; and no ValueError comes from a channel whose   *)
(* numeric texts are all such lists or single numbers.                     *)
(***************************************************************************)
\* Token lists with the numbers they stand for.
TokenLists ==
    { [toks |-> RangeTokens, vals |-> <<Dec(0, 0), Dec(4095, 0)>>],
      [toks |-> ColorTokens, vals |-> <<Dec(0, 0), Dec(128, 0), Dec(255, 0)>>],
      [toks |-> << <<"0">>, <<"1", ".", "5">> >>, vals |-> <<Dec(0, 0), Dec(15, 1)>>],
      [toks |-> << <<"0">>, <<"0">>, <<"2", "5", "5">> >>,
       vals |-> <<Dec(0, 0), Dec(0, 0), Dec(255, 0)>>] }

\* Every way of separating each token list, with the numbers it stands for.
SeparatedTexts ==
    UNION { { [text |-> SepJoin(tl.toks, seps), vals |-> tl.vals]
                : seps \in [1..(Len(tl.toks) - 1) -> Separators] }
            : tl \in TokenLists }

NumberTexts == { <<"1">>, <<"1", ".", "0">>, <<".", "5">>, <<" ", "1", ".">>,
                 <<"1", ".", "5">>, <<"2">> }

\* The text is one of the separated lists or one of the single numbers.
CleanText(text) ==
    /\ ~IsNone(text)
    /\ \/ \E st \in SeparatedTexts : st.text = Get(text)
       \/ Get(text) \in NumberTexts

Over255(vals) == [k \in 1..Len(vals) |-> Frac(vals[k].m, ColorScale * Pow10(vals[k].e))]

SeparatorTolerance ==
    Reading =>
       /\ \A i \in 1..Len(channels_information) : \A st \in SeparatedTexts :
             /\ TextOf(OutChannels[i], "range") = Some(st.text)
                   => channels_information[i]["range"] = st.vals
             /\ \A key \in ColorKeys :
                   (/\ HasKey(channels_information[i], key)
                    /\ TextOf(OutChannels[i], key) = Some(st.text))
                   => channels_information[i][key] = Over255(st.vals)
       /\ raised = "ValueError" =>
             LET ch == OutChannels[Len(channels_information) + 1]
             IN  \E tag \in ColorKeys \cup {"range", "alpha", "gamma"} :
                    Has(ch, tag) /\ ~CleanText(TextOf(ch, tag))

\* Two channels whose range texts separate the same tokens differently were
\* read, one with a comma, one without, and gave the same numbers.
SeparatorToleranceWitness ==
    /\ pc = "done" /\ Len(channels_information) = 2
    /\ TextOf(OutChannels[1], "range") = Some(SepJoin(RangeTokens, << <<",">> >>))
    /\ TextOf(OutChannels[2], "range") = Some(SepJoin(RangeTokens, << <<" ", " ">> >>))
    /\ channels_information[1]["range"] = channels_information[2]["range"]

(***************************************************************************)
(* C8. All-or-nothing: when some channel element of the document is bad (a *)
(* required child missing or a numeric text that does not parse),          *)
(* xmlstr2list returns no list at all.                                     *)
(***************************************************************************)
AllOrNothing ==
    (\E i \in 1..Len(OutChannels) : BadChannel(OutChannels[i])) => pc # "done"

(***************************************************************************)
(* C9. Fixed child layout: every channel element of a returned string has  *)
(* the children name, description, the one of color / color_table whose    *)
(* key the record has, range, alpha, and then gamma exactly when the       *)
(* record has the key gamma.                                               *)
(***************************************************************************)
Layout(r, colorKey) ==
    <<"name", "description", colorKey, "range", "alpha">>
        \o (IF HasKey(r, "gamma") THEN <<"gamma">> ELSE <<>>)

FixedLayout ==
    Serialized =>
       \A i \in 1..Len(OutChannels) :
          \E colorKey \in ColorKeys \cap DOMAIN channels_information_list[i] :
             Tags(OutChannels[i]) = Layout(channels_information_list[i], colorKey)

(***************************************************************************)
(* C10. Verbatim name and description: in a returned string, the name and  *)
(* description elements of the i-th channel hold the i-th record's name    *)
(* and description and nothing else.                                       *)
(***************************************************************************)
VerbatimNameDescription ==
    Serialized =>
       \A i \in 1..Len(channels_information_list) :
          /\ xml_root[i + 1].children[1].text = channels_information_list[i]["name"]
          /\ xml_root[i + 1].children[2].text = channels_information_list[i]["description"]

====
